---- MODULE Spec2Model ----
(***************************************************************************)
(* Model of src/main.ts: the diff-to-review pipeline of the code reviewer. *)
(* One run of main() is a single logical thread that suspends at every     *)
(* external call; each action below runs from one resumption to the next   *)
(* suspension.  Strings that the program inspects (paths, glob patterns,   *)
(* the exclude input, line-number strings) are sequences of tokens.        *)
(***************************************************************************)
EXTENDS Integers, Sequences, FiniteSets, TLC

VARIABLES
    GITHUB_TOKEN,     \* core.getInput("GITHUB_TOKEN"): "" when the input is absent
    OPENAI_API_KEY,   \* core.getInput("OPENAI_API_KEY"): "" when the input is absent
    eventAction,      \* eventData.action of the payload at GITHUB_EVENT_PATH
    excludeInput,     \* core.getInput("exclude"), a token sequence
    pc,               \* position of main(): the suspension point or the exit taken
    fault,            \* where the fault that reached main().catch was thrown
    prDetails,        \* result of getPRDetails()
    parsedDiff,       \* main's parsedDiff, the files of the diff
    filteredDiff,     \* main's filteredDiff, the argument of analyzeCode
    idx,              \* position of analyzeCode's for-of loop in filteredDiff
    comments,         \* analyzeCode's accumulator
    prompt,           \* the prompt of the inference call last sent
    inflight,         \* positions whose inference call has been sent and not answered
    prompted,         \* history: destination paths a prompt was compiled and sent for
    outcomes,         \* history: [file, response] of every answered inference call
    hostCalls,        \* history: the calls made on octokit, in order
    submitted,        \* history: the comment sequence of every pulls.createReview call
    log               \* history: what console.log / console.error printed

vars == <<GITHUB_TOKEN, OPENAI_API_KEY, eventAction, excludeInput, pc, fault, prDetails,
          parsedDiff, filteredDiff, idx, comments, prompt, inflight, prompted, outcomes,
          hostCalls, submitted, log>>

(***************************************************************************)
(* Bounds of the model.                                                    *)
(***************************************************************************)
MaxFiles == 3      \* files in one diff
MaxItems == 2      \* elements of one "reviews" array

\* Number(x) of a string that is not numeric, or of undefined
NaN == -1

RECURSIVE SeqsUpTo(_, _)
\* sequences of pairwise distinct elements of S, of length at most n
SeqsUpTo(S, n) ==
    IF n = 0 THEN {<<>>}
    ELSE LET shorter == SeqsUpTo(S, n - 1)
         IN  shorter \cup
             {t \in {Append(s, x) : s \in {u \in shorter : Len(u) = n - 1},
                                    x \in S} :
                \A i, j \in 1..Len(t) : i # j => t[i] # t[j]}

(***************************************************************************)
(* The parsed diff (parse-diff's File / Chunk / Change records).           *)
(***************************************************************************)
Undefined == 0     \* an absent ln / ln1 / ln2 field: falsy, like undefined

RECURSIVE ParseChanges(_, _, _)
\* parse-diff numbers the lines of a hunk from the hunk header: a deletion
\* carries ln (original side), an addition ln (new side), a context line
\* ln1 (original side) and ln2 (new side).
ParseChanges(kinds, lnDel, lnAdd) ==
    IF kinds = <<>> THEN <<>>
    ELSE LET k == Head(kinds)
             c == CASE k = "del" -> [type |-> "del", ln |-> lnDel,
                                     ln1 |-> Undefined, ln2 |-> Undefined,
                                     content |-> "-old"]
                    [] k = "add" -> [type |-> "add", ln |-> lnAdd,
                                     ln1 |-> Undefined, ln2 |-> Undefined,
                                     content |-> "+new"]
                    [] OTHER     -> [type |-> "normal", ln |-> Undefined,
                                     ln1 |-> lnDel, ln2 |-> lnAdd,
                                     content |-> " ctx"]
         IN  <<c>> \o ParseChanges(Tail(kinds),
                                   IF k = "add" THEN lnDel ELSE lnDel + 1,
                                   IF k = "del" THEN lnAdd ELSE lnAdd + 1)

ParseChunk(oldStart, newStart, kinds) ==
    [content |-> <<"@@", oldStart, newStart>>,
     changes |-> ParseChanges(kinds, oldStart, newStart)]

DevNull == <<"/", "dev", "/", "null">>

FileA    == [to |-> <<"a", ".", "ts">>,
             chunks |-> <<ParseChunk(5, 2, <<"normal", "del", "add">>),
                          ParseChunk(9, 7, <<"add", "normal">>)>>]
FileYaml == [to |-> <<"c", ".", "yaml">>,
             chunks |-> <<ParseChunk(1, 1, <<"add">>)>>]
FileSub  == [to |-> <<"src", "/", "b", ".", "ts">>,
             chunks |-> <<ParseChunk(4, 4, <<"del", "normal">>)>>]
FileGone == [to |-> DevNull,
             chunks |-> <<ParseChunk(1, 0, <<"del", "del">>)>>]

Files == {FileA, FileYaml, FileSub, FileGone}

\* what parseDiff(diff) can return: the files of a diff, each once
ParsedDiffs == SeqsUpTo(Files, MaxFiles)

(***************************************************************************)
(* The exclusion patterns.                                                 *)
(***************************************************************************)
ExcludeInputs ==
    { <<>>,
      <<"*", ".", "yaml">>,
      <<" ", "*", ".", "yaml", ",", " ", "*", ".", "ts", " ">> }

RECURSIVE Split(_)
\* s.split(","): the pieces between the commas; one empty piece for ""
Split(s) ==
    IF \A i \in 1..Len(s) : s[i] # ","
    THEN <<s>>
    ELSE LET k == CHOOSE i \in 1..Len(s) :
                      s[i] = "," /\ \A j \in 1..(i - 1) : s[j] # ","
         IN  <<SubSeq(s, 1, k - 1)>> \o Split(SubSeq(s, k + 1, Len(s)))

RECURSIVE Trim(_)
\* s.trim(): without the leading and trailing blanks
Trim(s) ==
    IF s = <<>> THEN s
    ELSE IF Head(s) = " " THEN Trim(Tail(s))
    ELSE IF s[Len(s)] = " " THEN Trim(SubSeq(s, 1, Len(s) - 1))
    ELSE s

ExcludePatterns(input) ==
    LET pieces == Split(input)
    IN  [i \in 1..Len(pieces) |-> Trim(pieces[i])]

RECURSIVE Minimatch(_, _)
\* minimatch(path, pattern) for literal tokens and "*": a star stands for
\* any run of tokens without a "/"; the empty pattern matches only "".
Minimatch(path, pattern) ==
    IF pattern = <<>> THEN path = <<>>
    ELSE IF Head(pattern) = "*"
    THEN \E k \in 0..Len(path) :
            /\ \A i \in 1..k : path[i] # "/"
            /\ Minimatch(SubSeq(path, k + 1, Len(path)), Tail(pattern))
    ELSE /\ path # <<>>
         /\ Head(path) = Head(pattern)
         /\ Minimatch(Tail(path), Tail(pattern))

IsExcluded_never(file, patterns) == FALSE

\* excludePatterns.some((pattern) => minimatch(file.to ?? "", pattern))
IsExcluded(file, patterns) ==
    \E i \in 1..Len(patterns) : Minimatch(file.to, patterns[i])

\* parsedDiff.filter(...)
FilterDiff(files, patterns) ==
    SelectSeq(files, LAMBDA f : ~IsExcluded(f, patterns))

\* if (file.to === "/dev/null") continue
IsDeleted(file) == file.to = DevNull

(***************************************************************************)
(* createPrompt.                                                           *)
(***************************************************************************)
LineLabel_newSideFirst(c) == IF c.ln2 # Undefined THEN c.ln2 ELSE c.ln1

\* c.ln ? c.ln : c.ln2
LineLabel(c) == IF c.ln # Undefined THEN c.ln ELSE c.ln2

\* `${label} ${c.content}`
RenderChange(c) == [label |-> LineLabel(c), content |-> c.content]

RenderChunk(chunk) ==
    [content |-> chunk.content,
     lines   |-> [i \in 1..Len(chunk.changes) |-> RenderChange(chunk.changes[i])]]

createPrompt(file, chunks, details) ==
    [file        |-> file.to,
     title       |-> details.title,
     description |-> details.description,
     chunks      |-> [i \in 1..Len(chunks) |-> RenderChunk(chunks[i])]]

NoPrompt == [file |-> <<>>, title |-> "", description |-> "", chunks |-> <<>>]

(***************************************************************************)
(* The answers of the inference service and getAIResponse.                 *)
(***************************************************************************)
\* the elements a "reviews" array can hold; the prompt asks for one finding
\* per problem, so the arrays enumerated hold each element once
Finding(lineNumber, reviewComment) ==
    [t |-> "object", lineNumber |-> lineNumber, reviewComment |-> reviewComment]
NullElement   == [t |-> "null",   lineNumber |-> <<>>, reviewComment |-> ""]

Elements == {Finding(<<"1", "2">>, "A"), Finding(<<"x">>, "B"), NullElement}

\* what openai.chat.completions.create can do, by what getAIResponse makes of it:
\*   throw       the call rejects (transport error, error status, time-out)
\*   unparseable the content is not JSON, or parses to null
\*   noReviews   the content is empty, or an object without "reviews"
\*   falsy       "reviews" is "", 0, false or null
\*   nonSeq      "reviews" is a non-empty string, a non-zero number or an object
\*   seq         "reviews" is an array
Responses ==
    {[kind |-> k, items |-> <<>>] :
        k \in {"throw", "unparseable", "noReviews", "falsy", "nonSeq"}}
    \cup {[kind |-> "seq", items |-> s] : s \in SeqsUpTo(Elements, MaxItems)}

Null == [t |-> "null", items |-> <<>>]

\* try { ... return JSON.parse(res).reviews } catch (error) { return null }
getAIResponse(response) ==
    CASE response.kind \in {"throw", "unparseable"} -> Null
      [] response.kind = "noReviews" -> [t |-> "undefined", items |-> <<>>]
      [] response.kind = "falsy"     -> [t |-> "falsy", items |-> <<>>]
      [] response.kind = "nonSeq"    -> [t |-> "nonSeq", items |-> <<>>]
      [] OTHER                       -> [t |-> "seq", items |-> response.items]

\* if (aiResponse): an array, even an empty one, is truthy
Truthy(aiResponse) == aiResponse.t \in {"nonSeq", "seq"}

\* aiResponse.map(...) throws a TypeError: a value without map, or an element
\* whose property read throws
MapThrows(aiResponse) ==
    \/ aiResponse.t = "nonSeq"
    \/ \E i \in 1..Len(aiResponse.items) : aiResponse.items[i].t = "null"

Digits == <<"0", "1", "2", "3", "4", "5", "6", "7", "8", "9">>

IsDigit(ch) == \E d \in 1..Len(Digits) : Digits[d] = ch

DigitValue(ch) == (CHOOSE d \in 1..Len(Digits) : Digits[d] = ch) - 1

RECURSIVE DigitsValue(_, _)
DigitsValue(s, acc) ==
    IF s = <<>> THEN acc
    ELSE DigitsValue(Tail(s), 10 * acc + DigitValue(Head(s)))

\* Number(aiComment.lineNumber)
Number(e) ==
    IF e.t # "object" THEN NaN
    ELSE IF \A i \in 1..Len(e.lineNumber) : IsDigit(e.lineNumber[i])
         THEN DigitsValue(e.lineNumber, 0)
         ELSE NaN

\* (aiComment) => ({ body, path, line })
ToComment(e, file) ==
    [body |-> IF e.t = "object" THEN e.reviewComment ELSE "undefined",
     path |-> file.to,
     line |-> Number(e)]

NewComments(aiResponse, file) ==
    [i \in 1..Len(aiResponse.items) |-> ToComment(aiResponse.items[i], file)]

PushAll_front(cs, newComments) == newComments \o cs

\* comments.push(...newComments)
PushAll(cs, newComments) == cs \o newComments

(***************************************************************************)
(* The external collaborators.                                             *)
(***************************************************************************)
EventActions == {"opened", "synchronize", "closed"}

\* octokit.pulls.get: it rejects, or answers with the title and the body
PullResponses ==
    {[kind |-> "throw", title |-> "null", body |-> "null"],
     [kind |-> "ok", title |-> "Fix", body |-> "null"]}

\* octokit.pulls.get in diff format: it rejects, answers with no text, or
\* with a text that parseDiff turns into files
DiffResponses ==
    {[kind |-> "throw", files |-> <<>>], [kind |-> "empty", files |-> <<>>]}
    \cup {[kind |-> "text", files |-> d] : d \in ParsedDiffs}

\* the inference service rejects a call made without a key
InferenceResponses(key) ==
    IF key = "" THEN {r \in Responses : r.kind = "throw"} ELSE Responses

\* the host rejects a review posted without a token
ReviewResponses(token) == IF token = "" THEN {"throw"} ELSE {"ok", "throw"}

\* x ?? ""
OrEmpty(x) == IF x = "null" THEN "" ELSE x

NoDetails == [title |-> "", description |-> ""]

(***************************************************************************)
(* main, analyzeCode and the top-level catch.                              *)
(***************************************************************************)
Supported(action) == action = "opened" \/ action = "synchronize"

ShouldSubmit_always(cs) == TRUE

\* if (comments.length > 0)
ShouldSubmit(cs) == Len(cs) > 0

\* the first position at or after `from` that the loop does not skip
NextLive(fd, from) ==
    IF \E k \in from..Len(fd) : ~IsDeleted(fd[k])
    THEN CHOOSE k \in from..Len(fd) :
            ~IsDeleted(fd[k]) /\ \A m \in from..(k - 1) : IsDeleted(fd[m])
    ELSE Len(fd) + 1

Sent_allAtOnce(fd, j) == {k \in j..Len(fd) : ~IsDeleted(fd[k])}

\* await getAIResponse(prompt): the calls the loop has sent when it suspends
Sent(fd, j) == {j}

\* main().catch: console.error and process.exit(1)
Catch(where) ==
    /\ pc' = "exit1"
    /\ fault' = where
    /\ log' = Append(log, "Error")

\* analyzeCode's loop from position `from` with accumulator cs, up to its next
\* suspension: the next inference call, or the return to main and lines 211-218
Loop(fd, from, cs, answered) ==
    LET j == NextLive(fd, from)
    IN  /\ comments' = cs
        /\ IF j <= Len(fd)
           THEN /\ idx' = j
                /\ prompt' = createPrompt(fd[j], fd[j].chunks, prDetails)
                /\ prompted' = Append(prompted, fd[j].to)
                /\ inflight' = (inflight \ answered) \cup Sent(fd, j)
                /\ pc' = "awaitAI"
                /\ UNCHANGED <<submitted, hostCalls>>
           ELSE /\ idx' = Len(fd) + 1
                /\ inflight' = inflight \ answered
                /\ UNCHANGED <<prompt, prompted>>
                /\ IF ShouldSubmit(cs)
                   THEN /\ submitted' = Append(submitted, cs)
                        /\ hostCalls' = Append(hostCalls, "createReview")
                        /\ pc' = "awaitReview"
                   ELSE /\ pc' = "exit0"
                        /\ UNCHANGED <<submitted, hostCalls>>

Init ==
    /\ GITHUB_TOKEN \in {"", "ghs"}
    /\ OPENAI_API_KEY \in {"", "sk"}
    /\ eventAction \in EventActions
    /\ excludeInput \in ExcludeInputs
    /\ pc = "main"
    /\ fault = "none"
    /\ prDetails = NoDetails
    /\ parsedDiff = <<>>
    /\ filteredDiff = <<>>
    /\ idx = 0
    /\ comments = <<>>
    /\ prompt = NoPrompt
    /\ inflight = {}
    /\ prompted = <<>>
    /\ outcomes = <<>>
    /\ hostCalls = <<>>
    /\ submitted = <<>>
    /\ log = <<>>

\* main() up to its first suspension: getPRDetails reads the payload and
\* calls octokit.pulls.get
Main ==
    /\ pc = "main"
    /\ hostCalls' = Append(hostCalls, "pulls.get")
    /\ pc' = "awaitPRDetails"
    /\ UNCHANGED <<GITHUB_TOKEN, OPENAI_API_KEY, eventAction, excludeInput, fault,
                   prDetails, parsedDiff, filteredDiff, idx, comments, prompt,
                   inflight, prompted, outcomes, submitted, log>>

\* pulls.get answers: getPRDetails returns, main reads the event and either
\* calls getDiff or returns
PRDetailsResponds ==
    /\ pc = "awaitPRDetails"
    /\ \E r \in PullResponses :
        IF r.kind = "throw"
        THEN /\ Catch("getPRDetails")
             /\ UNCHANGED <<prDetails, hostCalls>>
        ELSE /\ prDetails' = [title |-> OrEmpty(r.title),
                              description |-> OrEmpty(r.body)]
             /\ fault' = fault
             /\ IF Supported(eventAction)
                THEN /\ hostCalls' = Append(hostCalls, "pulls.get.diff")
                     /\ pc' = "awaitDiff"
                     /\ log' = log
                ELSE /\ log' = Append(log, "Unsupported event")
                     /\ pc' = "exit0"
                     /\ hostCalls' = hostCalls
    /\ UNCHANGED <<GITHUB_TOKEN, OPENAI_API_KEY, eventAction, excludeInput,
                   parsedDiff, filteredDiff, idx, comments, prompt, inflight,
                   prompted, outcomes, submitted>>

\* the diff arrives: main parses and filters it and enters analyzeCode
DiffResponds ==
    /\ pc = "awaitDiff"
    /\ \E r \in DiffResponses :
        CASE r.kind = "throw" ->
                /\ Catch("getDiff")
                /\ UNCHANGED <<parsedDiff, filteredDiff, idx, comments, prompt,
                               inflight, prompted, hostCalls, submitted>>
          [] r.kind = "empty" ->
                /\ log' = Append(log, "No diff found")
                /\ pc' = "exit0"
                /\ UNCHANGED <<fault, parsedDiff, filteredDiff, idx, comments,
                               prompt, inflight, prompted, hostCalls, submitted>>
          [] OTHER ->
                /\ parsedDiff' = r.files
                /\ filteredDiff' = FilterDiff(r.files, ExcludePatterns(excludeInput))
                /\ Loop(filteredDiff', 1, <<>>, {})
                /\ UNCHANGED <<fault, log>>
    /\ UNCHANGED <<GITHUB_TOKEN, OPENAI_API_KEY, eventAction, excludeInput,
                   prDetails, outcomes>>

\* the inference service answers: getAIResponse returns, analyzeCode maps and
\* pushes the findings and goes on with the loop
AIResponds ==
    /\ pc = "awaitAI"
    /\ \E i \in inflight, r \in InferenceResponses(OPENAI_API_KEY) :
        LET file       == filteredDiff[i]
            aiResponse == getAIResponse(r)
            caught     == r.kind \in {"throw", "unparseable"}
            logged     == IF caught THEN Append(log, "Error") ELSE log
        IN  /\ outcomes' = Append(outcomes, [file |-> i, response |-> r])
            /\ IF Truthy(aiResponse) /\ MapThrows(aiResponse)
               THEN /\ pc' = "exit1"
                    /\ fault' = "analyzeCode"
                    /\ log' = Append(logged, "Error")
                    /\ inflight' = inflight \ {i}
                    /\ UNCHANGED <<idx, comments, prompt, prompted, hostCalls,
                                   submitted>>
               ELSE /\ Loop(filteredDiff, i + 1,
                            IF Truthy(aiResponse)
                            THEN PushAll(comments, NewComments(aiResponse, file))
                            ELSE comments,
                            {i})
                    /\ log' = logged
                    /\ fault' = fault
    /\ UNCHANGED <<GITHUB_TOKEN, OPENAI_API_KEY, eventAction, excludeInput,
                   prDetails, parsedDiff, filteredDiff>>

\* pulls.createReview answers: main returns, or the rejection reaches the catch
ReviewResponds ==
    /\ pc = "awaitReview"
    /\ \E r \in ReviewResponses(GITHUB_TOKEN) :
        IF r = "throw"
        THEN Catch("createReview")
        ELSE /\ pc' = "exit0"
             /\ UNCHANGED <<fault, log>>
    /\ UNCHANGED <<GITHUB_TOKEN, OPENAI_API_KEY, eventAction, excludeInput,
                   prDetails, parsedDiff, filteredDiff, idx, comments, prompt,
                   inflight, prompted, outcomes, hostCalls, submitted>>

Next ==
    \/ Main
    \/ PRDetailsResponds
    \/ DiffResponds
    \/ AIResponds
    \/ ReviewResponds

Spec == Init /\ [][Next]_vars

\* every external call is answered: the clients give up on a call that gets
\* no answer and reject it
FairSpec == Spec /\ WF_vars(Next)

(***************************************************************************)
(* Properties.                                                             *)
(***************************************************************************)
Exited == pc \in {"exit0", "exit1"}

\* analyzeCode has been entered
Analysed == idx >= 1

Caught(response) == response.kind \in {"throw", "unparseable"}

\* the findings of an answer that is an array of objects
FindingsOf(response) ==
    IF response.kind = "seq"
       /\ \A n \in 1..Len(response.items) : response.items[n].t = "object"
    THEN response.items
    ELSE <<>>

\* the comments of the answer for the file at position i, in the order of
\* its findings
CommentsOfFile(outs, fd, i) ==
    IF \E k \in 1..Len(outs) : outs[k].file = i
    THEN LET o  == outs[CHOOSE k \in 1..Len(outs) : outs[k].file = i]
             fs == FindingsOf(o.response)
         IN  [n \in 1..Len(fs) |->
                [body |-> fs[n].reviewComment, path |-> fd[i].to,
                 line |-> Number(fs[n])]]
    ELSE <<>>

RECURSIVE AggregateUpTo(_, _, _)
\* the comments of the files at positions 1..i, file after file
AggregateUpTo(outs, fd, i) ==
    IF i = 0 THEN <<>>
    ELSE AggregateUpTo(outs, fd, i - 1) \o CommentsOfFile(outs, fd, i)

LiveFiles(fd) == {i \in 1..Len(fd) : fd[i].to # DevNull}

Matched(path) ==
    LET patterns == ExcludePatterns(excludeInput)
    IN  \E i \in 1..Len(patterns) : Minimatch(path, patterns[i])

\* C1: pulls.createReview is called at most once, only with a non-empty
\* sequence, which is the whole aggregate of all the files after the last
\* answer; a run whose filtered diff has no file ends with no comment and no
\* submission.
C1_SubmitOnceNonEmptyComplete ==
    /\ Len(submitted) <= 1
    /\ submitted # <<>> =>
        /\ submitted[1] # <<>>
        /\ submitted[1] = comments
        /\ submitted[1] = AggregateUpTo(outcomes, filteredDiff, Len(filteredDiff))
        /\ {outcomes[k].file : k \in 1..Len(outcomes)} = LiveFiles(filteredDiff)
        /\ hostCalls # <<>>
        /\ hostCalls[Len(hostCalls)] = "createReview"
    /\ (Analysed /\ filteredDiff = <<>>) =>
        /\ comments = <<>>
        /\ submitted = <<>>
        /\ prompted = <<>>
        /\ pc = "exit0"

C1_Witness ==
    /\ pc = "exit0"
    /\ Len(submitted) = 1
    /\ \E a, b \in 1..Len(submitted[1]) : submitted[1][a].path # submitted[1][b].path

\* C4: the submitted sequence is the comments of the files in the order of
\* the filtered diff, each file's comments in the order of its findings, one
\* comment per finding.
C4_SubmittedOrderPreserved ==
    submitted # <<>> =>
        LET sub == submitted[1]
            pos(c) == CHOOSE i \in 1..Len(filteredDiff) : filteredDiff[i].to = c.path
        IN  /\ sub = AggregateUpTo(outcomes, filteredDiff, Len(filteredDiff))
            /\ \A a, b \in 1..Len(sub) : a < b => pos(sub[a]) <= pos(sub[b])

C4_Witness ==
    /\ submitted # <<>>
    /\ Len(submitted[1]) >= 3
    /\ \E a, b \in 1..Len(submitted[1]) :
        /\ a < b
        /\ submitted[1][a].path # submitted[1][b].path
    /\ \E a, b \in 1..Len(submitted[1]) :
        /\ a < b
        /\ submitted[1][a].path = submitted[1][b].path
        /\ submitted[1][a].body # submitted[1][b].body

\* C5: a prompt is compiled and an inference call made only for a file whose
\* destination matches no exclusion pattern and is not /dev/null, and no
\* comment carries the path of an excluded or deleted file.
C5_NoPromptForExcludedOrDeleted ==
    /\ \A k \in 1..Len(prompted) :
        /\ prompted[k] # DevNull
        /\ ~Matched(prompted[k])
    /\ prompt # NoPrompt => prompt.file # DevNull /\ ~Matched(prompt.file)
    /\ \A k \in 1..Len(outcomes) :
        /\ filteredDiff[outcomes[k].file].to # DevNull
        /\ ~Matched(filteredDiff[outcomes[k].file].to)
    /\ \A k \in 1..Len(comments) :
        comments[k].path # DevNull /\ ~Matched(comments[k].path)
    /\ \A n \in 1..Len(submitted) : \A k \in 1..Len(submitted[n]) :
        submitted[n][k].path # DevNull /\ ~Matched(submitted[n][k].path)

C5_Witness ==
    /\ Exited
    /\ \E i \in 1..Len(parsedDiff) : Matched(parsedDiff[i].to)
    /\ \E i \in 1..Len(parsedDiff) : parsedDiff[i].to = DevNull
    /\ submitted # <<>>

\* the numbers parse-diff gives a change on each side
OrigSide(c) == IF c.type = "del" THEN c.ln ELSE c.ln1
NewSide(c)  == IF c.type = "add" THEN c.ln ELSE c.ln2

\* C8: every rendered change line is labelled with one number, the new-side
\* number of an added line and of a context line, the original-side number
\* of a deleted line.
C8_LineLabelSide ==
    prompt # NoPrompt =>
        \A i \in 1..Len(filteredDiff) :
            filteredDiff[i].to = prompt.file =>
                /\ Len(prompt.chunks) = Len(filteredDiff[i].chunks)
                /\ \A k \in 1..Len(prompt.chunks) :
                    LET chunk == filteredDiff[i].chunks[k]
                    IN  /\ Len(prompt.chunks[k].lines) = Len(chunk.changes)
                        /\ \A n \in 1..Len(chunk.changes) :
                            LET c     == chunk.changes[n]
                                label == prompt.chunks[k].lines[n].label
                            IN  /\ label # Undefined
                                /\ c.type = "add" => label = NewSide(c)
                                /\ c.type = "del" => label = OrigSide(c)
                                /\ c.type = "normal" => label = NewSide(c)

C8_Witness ==
    /\ prompt # NoPrompt
    /\ \E k \in 1..Len(prompt.chunks) :
        /\ \E n \in 1..Len(prompt.chunks[k].lines) : prompt.chunks[k].lines[n].content = "+new"
        /\ \E n \in 1..Len(prompt.chunks[k].lines) : prompt.chunks[k].lines[n].content = "-old"
        /\ \E n \in 1..Len(prompt.chunks[k].lines) : prompt.chunks[k].lines[n].content = " ctx"

\* C10: at most one inference call is in flight; a prompt is sent only when
\* every earlier call has been answered and its comments appended; the review
\* is submitted only after the last answer.
C10_StrictlySequential ==
    /\ Cardinality(inflight) <= 1
    /\ Len(prompted) <= Len(outcomes) + 1
    /\ pc = "awaitAI" =>
        /\ inflight = {idx}
        /\ Len(prompted) = Len(outcomes) + 1
        /\ \A k \in 1..Len(outcomes) : outcomes[k].file < idx
        /\ comments = AggregateUpTo(outcomes, filteredDiff, idx - 1)
    /\ submitted # <<>> =>
        /\ inflight = {}
        /\ Len(outcomes) = Len(prompted)
        /\ Len(outcomes) = Cardinality(LiveFiles(filteredDiff))

C10_Witness ==
    /\ pc = "awaitAI"
    /\ Len(outcomes) = 2
    /\ Len(comments) >= 2

\* both credentials were given
Configured == GITHUB_TOKEN # "" /\ OPENAI_API_KEY # ""

\* an answer that parses and breaks the schema: "reviews" is not a sequence,
\* or holds an element that is not an object
SchemaViolating(response) ==
    \/ response.kind \in {"falsy", "nonSeq"}
    \/ /\ response.kind = "seq"
       /\ \E n \in 1..Len(response.items) : response.items[n].t # "object"

\* C3: an answer that parses and breaks the schema is handled like a failed
\* call: no comment for that file, no fault out of the per-file step, the
\* loop goes on to the next file and the comments of the earlier files stay.
C3_SchemaViolationIsolated ==
    \A k \in 1..Len(outcomes) :
        (Configured /\ SchemaViolating(outcomes[k].response)) =>
            /\ fault # "analyzeCode"
            /\ idx > outcomes[k].file
            /\ \A n \in 1..Len(comments) :
                comments[n].path # filteredDiff[outcomes[k].file].to
            /\ \A m \in 1..(k - 1) : \A n \in 1..Len(FindingsOf(outcomes[m].response)) :
                \E q \in 1..Len(comments) :
                    /\ comments[q].path = filteredDiff[outcomes[m].file].to
                    /\ comments[q].body = FindingsOf(outcomes[m].response)[n].reviewComment

\* what analyzeCode handed to main: nothing when a fault left it
Delivered == IF fault = "analyzeCode" THEN <<>> ELSE comments

\* C2: a file whose call throws or answers unparseable text contributes no
\* comment, the loop goes on to the next file, and the final aggregate holds
\* every comment of every other file whose call succeeded.
C2_FailedCallIsolated ==
    \A k \in 1..Len(outcomes) :
        (Configured /\ Caught(outcomes[k].response)) =>
            /\ \A n \in 1..Len(comments) :
                comments[n].path # filteredDiff[outcomes[k].file].to
            /\ idx > outcomes[k].file
            /\ Exited =>
                \A m \in 1..Len(outcomes) :
                    \A n \in 1..Len(FindingsOf(outcomes[m].response)) :
                        \E q \in 1..Len(Delivered) :
                            /\ Delivered[q].path = filteredDiff[outcomes[m].file].to
                            /\ Delivered[q].body =
                                   FindingsOf(outcomes[m].response)[n].reviewComment

\* C6: a run whose event action is neither "opened" nor "synchronize" logs a
\* message and ends with exit code 0, without a diff fetch, an inference
\* call or a submission.
C6_UnsupportedEventCleanExit ==
    (Configured /\ ~Supported(eventAction) /\ Exited) =>
        /\ pc = "exit0"
        /\ \E k \in 1..Len(log) : log[k] = "Unsupported event"
        /\ \A k \in 1..Len(hostCalls) : hostCalls[k] = "pulls.get"
        /\ prompted = <<>>
        /\ submitted = <<>>

\* C7: with a required credential absent the process makes no call to the
\* host or to the inference service and does not exit with code 0.
C7_MissingCredentialFatal ==
    (GITHUB_TOKEN = "" \/ OPENAI_API_KEY = "") =>
        /\ hostCalls = <<>>
        /\ prompted = <<>>
        /\ pc # "exit0"

\* C9: once the analysis of a fetched diff has begun, the run reaches the
\* submission step or the exit without comments.
C9_ReachesSubmissionOrNoComments ==
    (Configured /\ Analysed) ~> (submitted # <<>> \/ (pc = "exit0" /\ comments = <<>>))
====
